---------------------------- MODULE Spec2Model ----------------------------
(***************************************************************************)
(* Model of the throughput-measurement tool of src/Server.py and           *)
(* src/Client.py: the discovery broadcast, the reliable (TCP) transfer,    *)
(* the unreliable (UDP) transfer and the thread orchestration on both      *)
(* sides.                                                                  *)
(*                                                                         *)
(* Conventions.                                                            *)
(*  - A datagram is [src, len, bytes]: its sender, its length and its      *)
(*    leading bytes (at most the 21 header bytes; what follows is the      *)
(*    b'X' filler, which no code reads).                                   *)
(*  - The 32-bit magic exceeds the model checker's integers, so a '!I'     *)
(*    field is kept as its 4 network-order bytes.                          *)
(*  - time.time() is a clock of TicksPerSec ticks per second; each timer   *)
(*    holds the ticks elapsed since the timestamp it stands for and        *)
(*    saturates at ElapsedCap, from where on all comparisons of the code   *)
(*    give the same answer.                                                *)
(***************************************************************************)
EXTENDS Integers, Sequences, FiniteSets, Bags, TLC

\* ------------------------------------------------------------- bounds
MaxConn == 1
MaxSizeSteps == 3
SizeStep == 700
TicksPerSec == 1
RcvBufCap == 2
MaxForeign == 1
MaxDup == 1
SockBufChunks == 2
MaxReset == 1
MaxSendErr == 1

\* ---------------------------------------------------------- constants
OFFER_MESSAGE_TYPE == 2
REQUEST_MESSAGE_TYPE == 3
PAYLOAD_MESSAGE_TYPE == 4
UDP_PORT == 14117
TCP_PORT == 65432
BUFFER_SIZE == 1024
\* 0xabcddcba in network byte order
MAGIC_COOKIE == <<171, 205, 220, 186>>

OFFER_MIN_LEN == 9
REQUEST_MIN_LEN == 13
CLIENT_PAYLOAD_MIN_LEN == 20

FileSizes == {k * SizeStep : k \in 0..MaxSizeSteps}
ConnCounts == 0..MaxConn
TIDs == 1..(2 * MaxConn)
ElapsedCap == TicksPerSec + 1
PartLens == {BUFFER_SIZE \div 2, BUFFER_SIZE}
PortSamples == {0, 258, 513, 65535}
\* what a TCP socket buffer holds before send() blocks
SockBufCap == SockBufChunks * BUFFER_SIZE

Min(a, b) == IF a <= b THEN a ELSE b

\* ------------------------------------------------------ wire encoding
\* struct.pack('!H', n)
PackH(n) == <<(n \div 256) % 256, n % 256>>
\* struct.pack('!Q', n), for n below 2^31
PackQ(n) == <<0, 0, 0, 0, (n \div 16777216) % 256, (n \div 65536) % 256,
              (n \div 256) % 256, n % 256>>
\* struct.unpack('!H', b)
UnpackH(b) == b[1] * 256 + b[2]
\* struct.unpack('!Q', b)
UnpackQ(b) ==
    LET hi == ((b[1] * 256 + b[2]) * 256 + b[3]) * 256 + b[4]
        lo == ((b[5] * 256 + b[6]) * 256 + b[7]) * 256 + b[8]
    IN  IF hi = 0 THEN lo ELSE -1

\* struct.pack('!IBHH', cookie, type, udp_port, tcp_port)
Pack_IBHH(cookie, type, a, b) == cookie \o <<type>> \o PackH(a) \o PackH(b)
\* struct.pack('!IBQ', cookie, type, size)
Pack_IBQ(cookie, type, q) == cookie \o <<type>> \o PackQ(q)
\* struct.pack('!IBQQ', cookie, type, total, index)
Pack_IBQQ(cookie, type, q1, q2) == cookie \o <<type>> \o PackQ(q1) \o PackQ(q2)

\* struct.unpack('!IBHH', message[:9]) -> (cookie, message_type, udp_port, tcp_port)
Unpack_IBHH(m) ==
    [cookie |-> SubSeq(m, 1, 4), message_type |-> m[5],
     udp_port |-> UnpackH(SubSeq(m, 6, 7)), tcp_port |-> UnpackH(SubSeq(m, 8, 9))]
\* struct.unpack('!IBQ', data[:13]) -> (cookie, message_type, file_size)
Unpack_IBQ(m) ==
    [cookie |-> SubSeq(m, 1, 4), message_type |-> m[5],
     file_size |-> UnpackQ(SubSeq(m, 6, 13))]

\* addresses: the server, another host, and the socket of client thread t
ServerAddr == <<"server", 0>>
OtherAddr == <<"other", 0>>
ClientAddr(t) == <<"client", t>>

Datagram(src, bytes, len) == [src |-> src, len |-> len, bytes |-> bytes]
NoData == Datagram(<<"none", 0>>, <<>>, 0)

\* the offer of send_offers
OfferMessage(udp_port, tcp_port) ==
    Pack_IBHH(MAGIC_COOKIE, OFFER_MESSAGE_TYPE, udp_port, tcp_port)
ServerOffer == Datagram(ServerAddr, OfferMessage(UDP_PORT, TCP_PORT), 9)

\* the request of udp_transfer
RequestMessage(file_size) == Pack_IBQ(MAGIC_COOKIE, REQUEST_MESSAGE_TYPE, file_size)

\* the payload of handle_udp_client: header, then filler up to BUFFER_SIZE
PayloadHeader(total_segments, segment_num) ==
    Pack_IBQQ(MAGIC_COOKIE, PAYLOAD_MESSAGE_TYPE, total_segments, segment_num)
PayloadDatagram(total_segments, segment_num) ==
    LET payload == PayloadHeader(total_segments, segment_num)
    IN  Datagram(ServerAddr, payload, Len(payload) + (BUFFER_SIZE - Len(payload)))

BAD_COOKIE == <<171, 205, 220, 187>>
\* what else may arrive on the discovery port
ForeignDiscovery ==
    {Datagram(OtherAddr, OfferMessage(u, t), 9) : u \in PortSamples, t \in PortSamples}
    \cup {Datagram(OtherAddr, Pack_IBHH(BAD_COOKIE, OFFER_MESSAGE_TYPE, UDP_PORT, TCP_PORT), 9),
          Datagram(OtherAddr, Pack_IBHH(MAGIC_COOKIE, REQUEST_MESSAGE_TYPE, UDP_PORT, TCP_PORT), 9),
          Datagram(OtherAddr, SubSeq(OfferMessage(UDP_PORT, TCP_PORT), 1, 8), 8),
          Datagram(OtherAddr, RequestMessage(SizeStep), 13)}

\* -------------------------------------------------------------- state
VARIABLES
    cpc,              \* start_client: where the main thread is
    file_size,        \* start_client: the three inputs
    tcp_connections,
    udp_connections,
    message,          \* listen_for_offers: the datagram last received
    offer,            \* start_client: (server_ip, tcp_port, udp_port)
    threads,          \* start_client: the list of started threads
    idx,              \* start_client: the running index of its current loop
    thr,              \* the client's worker threads, by thread id
    disc_inbox,       \* receive buffer of the discovery socket (a bag)
    conn,             \* the TCP connections, by the id of the connecting thread
    hdl,              \* handle_tcp_client threads, by connection
    inbox,            \* receive buffers of the udp_transfer sockets (bags), by thread
    srv_inbox,        \* receive buffer of the socket of start_udp_server (a bag)
    uh,               \* handle_udp_client threads, in the order they were started
    b_pc,             \* send_offers: "send" | "sleep"
    b_timer,          \* send_offers: ticks slept
    faults            \* what the environment may still do

clientVars == <<cpc, file_size, tcp_connections, udp_connections, message, offer, threads, idx>>
bcastVars == <<b_pc, b_timer>>
tcpVars == <<conn, hdl>>
udpVars == <<inbox, srv_inbox, uh>>
vars == <<clientVars, thr, disc_inbox, tcpVars, udpVars, bcastVars, faults>>

ZeroRate == [num |-> 0, den |-> 1]
NoThread ==
    [kind |-> "none", pc |-> "none", server_ip |-> <<"none", 0>>, port |-> 0, file_size |-> 0,
     received |-> 0, total_received |-> 0, total_segments |-> 0, received_segments |-> 0,
     data |-> NoData, elapsed |-> 0, wait |-> 0, success_rate |-> ZeroRate]
\* a connection: its state, the request characters not yet read by the server,
\* the bytes written by the server and not yet read by the client, and which
\* ends are still open
NoConn == [state |-> "none", c2s |-> <<>>, s2c |-> 0, cli_open |-> FALSE, srv_open |-> FALSE,
           reset |-> FALSE]
\* a handler: handed counts the bytes the transport accepted from send()
NoHandler == [pc |-> "none", file_size |-> 0, bytes_sent |-> 0, handed |-> 0, elapsed |-> 0,
              error |-> "none", shutdown |-> "none"]
NoOffer == [server_ip |-> <<"none", 0>>, tcp_port |-> 0, udp_port |-> 0]

BagSize(b) == BagCardinality(b)
BagAdd(b, d) == b (+) SetToBag({d})
BagRemove(b, d) == b (-) SetToBag({d})
\* a datagram reaching a socket buffer is queued, or dropped when the buffer is full
Arrive(b, d) == IF BagSize(b) < RcvBufCap THEN BagAdd(b, d) ELSE b

InitWith(sizes, ks, ms, f) ==
    /\ cpc = "listen"
    /\ file_size \in sizes
    /\ tcp_connections \in ks
    /\ udp_connections \in ms
    /\ message = NoData
    /\ offer = NoOffer
    /\ threads = <<>>
    /\ idx = 0
    /\ thr = [t \in TIDs |-> NoThread]
    /\ disc_inbox = EmptyBag
    /\ conn = [t \in TIDs |-> NoConn]
    /\ hdl = [t \in TIDs |-> NoHandler]
    /\ inbox = [t \in TIDs |-> EmptyBag]
    /\ srv_inbox = EmptyBag
    /\ uh = <<>>
    /\ b_pc = "send"
    /\ b_timer = 0
    /\ faults = f

\* ------------------------------------------------------------- clock
Sat(n) == Min(n + 1, ElapsedCap)
\* sleep(1) and settimeout(1) only ask whether a second has passed
SatSec(n) == Min(n + 1, TicksPerSec)
\* a thread that has ended: its timers stand for nothing any more
Ended(th, outcome) == [th EXCEPT !.pc = outcome, !.elapsed = 0, !.wait = 0, !.data = NoData]
\* tcp_transfer only asks whether end_time differs from start_time
Sat1(n) == Min(n + 1, 1)
Timed(th) == th.kind # "none" /\ th.pc \notin {"none", "init", "mark", "finished", "error"}
Tick ==
    /\ b_timer' = IF b_pc = "sleep" THEN SatSec(b_timer) ELSE b_timer
    /\ thr' = [t \in TIDs |->
                 IF ~Timed(thr[t]) THEN thr[t]
                 ELSE IF thr[t].kind = "tcp" THEN [thr[t] EXCEPT !.elapsed = Sat1(@)]
                 ELSE [thr[t] EXCEPT !.elapsed = Sat(@),
                                     !.wait = IF thr[t].pc = "recv" THEN SatSec(@) ELSE @]]
    /\ hdl' = [c \in TIDs |->
                 IF hdl[c].pc = "send" THEN [hdl[c] EXCEPT !.elapsed = Sat1(@)] ELSE hdl[c]]
    /\ uh' = [h \in DOMAIN uh |->
                IF uh[h].pc = "send" THEN [uh[h] EXCEPT !.elapsed = Sat1(@)] ELSE uh[h]]
    /\ UNCHANGED <<clientVars, disc_inbox, conn, inbox, srv_inbox, b_pc, faults>>

\* ----------------------------------------------------- Server.send_offers
\* one turn of the loop: sendto, print, and the start of the sleep; the
\* broadcast goes to UDP_PORT, where the client listens and where, on a host
\* that hands broadcasts to a socket bound to one address (faults.own), the
\* server's own start_udp_server listens too
BroadcastSend ==
    /\ b_pc = "send"
    /\ b_pc' = "sleep"
    /\ b_timer' = 0
    /\ \/ disc_inbox' = (IF cpc = "listen" THEN Arrive(disc_inbox, ServerOffer) ELSE disc_inbox)
       \/ disc_inbox' = disc_inbox
    /\ \/ srv_inbox' = (IF faults.own > 0 THEN Arrive(srv_inbox, ServerOffer) ELSE srv_inbox)
       \/ srv_inbox' = srv_inbox
    /\ UNCHANGED <<clientVars, thr, tcpVars, inbox, uh, faults>>

\* sendto raises (the network is down): nothing in send_offers catches it, the
\* thread ends
BroadcastSendFails ==
    /\ b_pc = "send"
    /\ faults.senderr > 0
    /\ faults' = [faults EXCEPT !.senderr = @ - 1]
    /\ b_pc' = "dead"
    /\ b_timer' = 0
    /\ UNCHANGED <<clientVars, thr, disc_inbox, tcpVars, udpVars>>

BroadcastWake ==
    /\ b_pc = "sleep"
    /\ b_timer >= TicksPerSec
    /\ b_pc' = "send"
    /\ UNCHANGED <<clientVars, thr, disc_inbox, tcpVars, udpVars, b_timer, faults>>

\* other traffic reaching the discovery port
ForeignToDiscovery ==
    /\ cpc = "listen"
    /\ faults.foreign > 0
    /\ \E d \in ForeignDiscovery : disc_inbox' = Arrive(disc_inbox, d)
    /\ faults' = [faults EXCEPT !.foreign = @ - 1]
    /\ UNCHANGED <<clientVars, thr, tcpVars, udpVars, bcastVars>>

\* ------------------------------------------- Client.listen_for_offers
\* the check of the offer with the magic left out
IsOfferAnyCookie(m) ==
    /\ m.len >= OFFER_MIN_LEN
    /\ Unpack_IBHH(SubSeq(m.bytes, 1, 9)).message_type = OFFER_MESSAGE_TYPE

IsOffer(m) ==
    /\ m.len >= OFFER_MIN_LEN
    /\ LET u == Unpack_IBHH(SubSeq(m.bytes, 1, 9))
       IN  u.cookie = MAGIC_COOKIE /\ u.message_type = OFFER_MESSAGE_TYPE

\* the two ports returned in the other order
ListenReturnSwapped(address, u) == <<address, u.udp_port, u.tcp_port>>

\* return address[0], tcp_port, udp_port
ListenReturn(address, u) == <<address, u.tcp_port, u.udp_port>>

\* server_ip, tcp_port, udp_port = listen_for_offers()
BindOffer(r) == [server_ip |-> r[1], tcp_port |-> r[2], udp_port |-> r[3]]

ListenRecv ==
    /\ cpc = "listen"
    /\ \E d \in BagToSet(disc_inbox) :
         /\ message' = d
         /\ IF IsOffer(d)
            THEN /\ offer' = BindOffer(ListenReturn(d.src, Unpack_IBHH(SubSeq(d.bytes, 1, 9))))
                 /\ cpc' = "launch_tcp"
                 /\ idx' = 1
                 /\ disc_inbox' = EmptyBag
            ELSE /\ disc_inbox' = BagRemove(disc_inbox, d)
                 /\ UNCHANGED <<offer, cpc, idx>>
    /\ UNCHANGED <<file_size, tcp_connections, udp_connections, threads, thr, tcpVars, udpVars, bcastVars, faults>>

\* ------------------------------------------------ Client.start_client
NewThread(kind, ip, port, size) ==
    [NoThread EXCEPT !.kind = kind, !.pc = "init", !.server_ip = ip, !.port = port,
                     !.file_size = size]

\* threading.Thread(target=tcp_transfer, args=(server_ip, tcp_port, file_size))
TcpThread == NewThread("tcp", offer.server_ip, offer.tcp_port, file_size)
\* threading.Thread(target=udp_transfer, args=(server_ip, udp_port, file_size))
UdpThread == NewThread("udp", offer.server_ip, offer.udp_port, file_size)

LaunchTcp ==
    /\ cpc = "launch_tcp"
    /\ IF idx <= tcp_connections
       THEN /\ thr' = [thr EXCEPT ![Len(threads) + 1] = TcpThread]
            /\ threads' = Append(threads, Len(threads) + 1)
            /\ idx' = idx + 1
            /\ cpc' = cpc
       ELSE /\ cpc' = "launch_udp"
            /\ idx' = 1
            /\ UNCHANGED <<thr, threads>>
    /\ UNCHANGED <<file_size, tcp_connections, udp_connections, message, offer, disc_inbox, tcpVars, udpVars, bcastVars, faults>>

LaunchUdp ==
    /\ cpc = "launch_udp"
    /\ IF idx <= udp_connections
       THEN /\ thr' = [thr EXCEPT ![Len(threads) + 1] = UdpThread]
            /\ threads' = Append(threads, Len(threads) + 1)
            /\ idx' = idx + 1
            /\ cpc' = cpc
       ELSE /\ cpc' = "join"
            /\ idx' = 1
            /\ UNCHANGED <<thr, threads>>
    /\ UNCHANGED <<file_size, tcp_connections, udp_connections, message, offer, disc_inbox, tcpVars, udpVars, bcastVars, faults>>

\* a join that does not wait
NeverWaits(t) == TRUE

\* t.join() returns once the thread has ended
Terminated(t) == thr[t].pc \in {"finished", "error"}

\* what start_client does after the last join: print, return; the process ends
AfterJoin == "exit"

\* for t in threads: t.join()
Join ==
    /\ cpc = "join"
    /\ IF idx <= Len(threads)
       THEN /\ Terminated(threads[idx])
            /\ idx' = idx + 1
            /\ cpc' = cpc
       ELSE /\ cpc' = AfterJoin
            /\ idx' = 0
    /\ UNCHANGED <<file_size, tcp_connections, udp_connections, message, offer, threads, thr, disc_inbox, tcpVars, udpVars, bcastVars, faults>>

\* ------------------------------------------------ decimal request text
DigitChars == <<"0", "1", "2", "3", "4", "5", "6", "7", "8", "9">>
IsDigit(c) == \E d \in 1..10 : DigitChars[d] = c
DigitValue(c) == (CHOOSE d \in 1..10 : DigitChars[d] = c) - 1
IsSpace(c) == c \in {"\n", " "}

RECURSIVE Decimal(_)
\* str(n) for n >= 0
Decimal(n) == IF n < 10 THEN <<DigitChars[n + 1]>>
              ELSE Decimal(n \div 10) \o <<DigitChars[(n % 10) + 1]>>

\* f"{file_size}\n".encode()
RequestLine(n) == Decimal(n) \o <<"\n">>

RECURSIVE LStrip(_)
LStrip(s) == IF s # <<>> /\ IsSpace(Head(s)) THEN LStrip(Tail(s)) ELSE s
RECURSIVE RStrip(_)
RStrip(s) == IF s # <<>> /\ IsSpace(s[Len(s)]) THEN RStrip(SubSeq(s, 1, Len(s) - 1)) ELSE s
\* bytes.decode().strip()
Strip(s) == RStrip(LStrip(s))

RECURSIVE DigitsValue(_)
DigitsValue(s) == IF s = <<>> THEN 0
                  ELSE DigitsValue(SubSeq(s, 1, Len(s) - 1)) * 10 + DigitValue(s[Len(s)])
\* int(text): the value, or -1 where int() raises ValueError
ParseInt(s) == IF s # <<>> /\ \A i \in 1..Len(s) : IsDigit(s[i]) THEN DigitsValue(s) ELSE -1

\* ------------------------------------------------ Client.tcp_transfer
\* start_time = time.time()
TcpBegin(t) ==
    /\ thr[t].kind = "tcp" /\ thr[t].pc = "init"
    /\ thr' = [thr EXCEPT ![t].pc = "connect", ![t].elapsed = 0]
    /\ UNCHANGED <<clientVars, disc_inbox, tcpVars, udpVars, bcastVars, faults>>

\* the server listens on (ServerAddr, TCP_PORT); nothing else accepts
Listening(ip, port) == ip = ServerAddr /\ port = TCP_PORT

\* tcp_socket.connect((server_ip, tcp_port))
TcpConnect(t) ==
    /\ thr[t].kind = "tcp" /\ thr[t].pc = "connect"
    /\ IF Listening(thr[t].server_ip, thr[t].port)
       THEN /\ conn' = [conn EXCEPT ![t] = [NoConn EXCEPT !.state = "backlog", !.cli_open = TRUE,
                                                             !.srv_open = TRUE]]
            /\ thr' = [thr EXCEPT ![t].pc = "request"]
       ELSE /\ thr' = [thr EXCEPT ![t] = Ended(@, "error")]
            /\ UNCHANGED conn
    /\ UNCHANGED <<clientVars, disc_inbox, hdl, udpVars, bcastVars, faults>>

\* tcp_socket.sendall(f"{file_size}\n".encode()); received = 0
TcpRequest(t) ==
    /\ thr[t].kind = "tcp" /\ thr[t].pc = "request"
    /\ IF conn[t].reset
       THEN /\ thr' = [thr EXCEPT ![t] = Ended(@, "error")]
            /\ conn' = [conn EXCEPT ![t].cli_open = FALSE]
       ELSE /\ thr' = [thr EXCEPT ![t].pc = "recv", ![t].received = 0]
            /\ conn' = [conn EXCEPT ![t].c2s = @ \o RequestLine(thr[t].file_size)]
    /\ UNCHANGED <<clientVars, disc_inbox, hdl, udpVars, bcastVars, faults>>

\* the loop left one buffer early
TcpLoopCondEarly(received, size) == received + BUFFER_SIZE < size

\* while received < file_size
TcpLoopCond(received, size) == received < size

\* what recv(BUFFER_SIZE) may return on a stream holding avail bytes: a part
\* of them; nothing once the peer has closed; it blocks otherwise
RecvLens(avail, peer_open) ==
    IF avail > 0 THEN {n \in PartLens : n <= avail}
    ELSE IF peer_open THEN {} ELSE {0}

\* one turn of the loop: data = tcp_socket.recv(BUFFER_SIZE); received += len(data)
TcpRecv(t) ==
    /\ thr[t].kind = "tcp" /\ thr[t].pc = "recv"
    /\ TcpLoopCond(thr[t].received, thr[t].file_size)
    /\ IF conn[t].reset
       THEN /\ thr' = [thr EXCEPT ![t] = Ended(@, "error")]
            /\ conn' = [conn EXCEPT ![t].cli_open = FALSE]
       ELSE \E n \in RecvLens(conn[t].s2c, conn[t].srv_open) :
              /\ thr' = [thr EXCEPT ![t].received = @ + n]
              /\ conn' = [conn EXCEPT ![t].s2c = @ - n]
    /\ UNCHANGED <<clientVars, disc_inbox, hdl, udpVars, bcastVars, faults>>

\* the loop is left and the socket closed; end_time; speed = received / (end_time
\* - start_time) * 8 raises ZeroDivisionError when the clock has not moved
TcpOutcome(elapsed) == IF elapsed > 0 THEN "finished" ELSE "error"

TcpFinish(t) ==
    /\ thr[t].kind = "tcp" /\ thr[t].pc = "recv"
    /\ ~TcpLoopCond(thr[t].received, thr[t].file_size)
    /\ thr' = [thr EXCEPT ![t] = Ended(@, TcpOutcome(thr[t].elapsed))]
    /\ conn' = [conn EXCEPT ![t].cli_open = FALSE]
    /\ UNCHANGED <<clientVars, disc_inbox, hdl, udpVars, bcastVars, faults>>

\* ------------------------------------------- Server.start_tcp_server
\* the accept loop running each handler itself, to its end
AcceptLoopRunsHandler == \A c \in TIDs : hdl[c].pc \notin {"recv", "send"}

\* Thread(...).start() returns at once: the loop is back in accept() whatever
\* the handlers it has started are doing
AcceptLoopIdle == TRUE

\* connection, client_address = tcp_socket.accept(); Thread(handle_tcp_client).start()
TcpAccept(c) ==
    /\ AcceptLoopIdle
    /\ conn[c].state = "backlog"
    /\ conn' = [conn EXCEPT ![c].state = "accepted"]
    /\ hdl' = [hdl EXCEPT ![c] = [NoHandler EXCEPT !.pc = "recv"]]
    /\ UNCHANGED <<clientVars, thr, disc_inbox, udpVars, bcastVars, faults>>

\* what a client that is not tcp_transfer may write after connecting: nothing,
\* or a line that is no number
ForeignLines == {<<>>, <<"x", "\n">>}

\* another program connects to the server's TCP port, writes, and stays
\* connected or closes at once
ForeignConnect(c) ==
    /\ faults.foreign > 0
    /\ cpc \in {"join", "exit"}
    /\ thr[c].kind = "none" /\ conn[c].state = "none"
    /\ \E line \in ForeignLines, open \in BOOLEAN :
         conn' = [conn EXCEPT ![c] = [NoConn EXCEPT !.state = "backlog", !.c2s = line,
                                                     !.cli_open = open, !.srv_open = TRUE]]
    /\ faults' = [faults EXCEPT !.foreign = @ - 1]
    /\ UNCHANGED <<clientVars, thr, disc_inbox, hdl, udpVars, bcastVars>>

\* ------------------------------------------- Server.handle_tcp_client
\* connection.shutdown(socket.SHUT_RDWR) raises on a connection that was reset
Shutdown(c) == IF conn[c].reset THEN "failed" ELSE "done"

\* a handler that closes only at the end of its try block
HCloseOnSuccess(c, why) ==
    /\ hdl' = [hdl EXCEPT ![c].pc = "closed", ![c].error = why, ![c].elapsed = 0,
                          ![c].shutdown = IF why = "none" THEN Shutdown(c) ELSE "none"]
    /\ conn' = [conn EXCEPT ![c].srv_open = (why # "none")]

\* the except block, then the finally block: shutdown, its exception swallowed,
\* and close
HClose(c, why) ==
    /\ hdl' = [hdl EXCEPT ![c].pc = "closed", ![c].error = why, ![c].elapsed = 0,
                          ![c].shutdown = Shutdown(c)]
    /\ conn' = [conn EXCEPT ![c].srv_open = FALSE]

\* file_size = int(connection.recv(BUFFER_SIZE).decode().strip())
HRecvRequest(c) ==
    /\ hdl[c].pc = "recv"
    /\ IF conn[c].reset THEN HClose(c, "transport")
       ELSE IF conn[c].c2s = <<>>
       THEN /\ ~conn[c].cli_open
            /\ HClose(c, "value")
       ELSE \E n \in 1..Min(Len(conn[c].c2s), BUFFER_SIZE) :
              LET v == ParseInt(Strip(SubSeq(conn[c].c2s, 1, n)))
                  rest == SubSeq(conn[c].c2s, n + 1, Len(conn[c].c2s))
              IN  IF v < 0
                  THEN HClose(c, "value")
                  ELSE /\ hdl' = [hdl EXCEPT ![c].pc = "send", ![c].file_size = v,
                                             ![c].bytes_sent = 0, ![c].elapsed = 0]
                       /\ conn' = [conn EXCEPT ![c].c2s = rest]
    /\ UNCHANGED <<clientVars, thr, disc_inbox, udpVars, bcastVars, faults>>

\* while bytes_sent < file_size
HLoopCond(bytes_sent, size) == bytes_sent < size

\* what connection.send(data) may return with room for space bytes: the length
\* it took, all of data or a part; it blocks while there is no room
SendLens(space) == {n \in PartLens : n <= space}

\* bytes_sent += len(data)
HCount(bytes_sent, accepted) == bytes_sent + BUFFER_SIZE

\* one turn of the loop: connection.send(data); bytes_sent += len(data)
HSend(c) ==
    /\ hdl[c].pc = "send"
    /\ HLoopCond(hdl[c].bytes_sent, hdl[c].file_size)
    /\ IF conn[c].reset \/ ~conn[c].cli_open THEN HClose(c, "transport")
       ELSE \E n \in SendLens(SockBufCap - conn[c].s2c) :
              /\ hdl' = [hdl EXCEPT ![c].bytes_sent = HCount(@, n), ![c].handed = @ + n]
              /\ conn' = [conn EXCEPT ![c].s2c = @ + n]
    /\ UNCHANGED <<clientVars, thr, disc_inbox, udpVars, bcastVars, faults>>

\* the loop is left; end_time; speed = bytes_sent / (end_time - start_time) * 8
\* raises ZeroDivisionError when the clock has not moved; then the finally block
HFinish(c) ==
    /\ hdl[c].pc = "send"
    /\ ~HLoopCond(hdl[c].bytes_sent, hdl[c].file_size)
    /\ HClose(c, IF hdl[c].elapsed > 0 THEN "none" ELSE "zerodiv")
    /\ UNCHANGED <<clientVars, thr, disc_inbox, udpVars, bcastVars, faults>>

\* the network resets an established connection
NetReset(c) ==
    /\ faults.reset > 0
    /\ conn[c].state # "none" /\ ~conn[c].reset
    /\ conn[c].cli_open \/ conn[c].srv_open
    /\ conn' = [conn EXCEPT ![c].reset = TRUE, ![c].s2c = 0, ![c].c2s = <<>>]
    /\ faults' = [faults EXCEPT !.reset = @ - 1]
    /\ UNCHANGED <<clientVars, thr, disc_inbox, hdl, udpVars, bcastVars>>


\* ------------------------------------------------ Client.udp_transfer
\* the datagram network: a datagram sent is lost, arrives, or arrives twice
Copies == 0..2
Deliver(b, d, k) == IF k = 0 THEN b ELSE IF k = 1 THEN Arrive(b, d) ELSE Arrive(Arrive(b, d), d)
DupCost(k) == IF k = 2 THEN 1 ELSE 0

\* a datagram in the socket of udp_transfer, with the reading of the
\* worker's clock (ticks since start_time) at which it arrived
ArrivedAt(d, ticks) == [src |-> d.src, len |-> d.len, bytes |-> d.bytes, at |-> ticks]

\* the socket of udp_transfer is open from its creation to the end of the with block
SocketOpen(t) == thr[t].kind = "udp" /\ thr[t].pc \in {"mark", "loop", "recv"}

\* start_udp_server is bound to UDP_PORT on the server
UdpServed(ip, port) == ip = ServerAddr /\ port = UDP_PORT

\* total_segments = file_size // BUFFER_SIZE
TotalSegments(size) == size \div BUFFER_SIZE

\* lines 83-91: the counters, the socket, the request datagram
UdpRequest(t) ==
    /\ thr[t].kind = "udp" /\ thr[t].pc = "init"
    /\ thr' = [thr EXCEPT ![t].pc = "mark", ![t].total_received = 0,
                          ![t].total_segments = TotalSegments(thr[t].file_size),
                          ![t].received_segments = 0]
    /\ \E k \in Copies :
         /\ DupCost(k) <= faults.dup
         /\ faults' = [faults EXCEPT !.dup = @ - DupCost(k)]
         /\ srv_inbox' = IF UdpServed(thr[t].server_ip, thr[t].port)
                         THEN Deliver(srv_inbox, Datagram(ClientAddr(t), RequestMessage(thr[t].file_size), 13), k)
                         ELSE srv_inbox
    /\ UNCHANGED <<clientVars, disc_inbox, tcpVars, inbox, uh, bcastVars>>

\* sendto raises (no route to the server): the outer except block
UdpRequestFails(t) ==
    /\ thr[t].kind = "udp" /\ thr[t].pc = "init"
    /\ faults.senderr > 0
    /\ faults' = [faults EXCEPT !.senderr = @ - 1]
    /\ thr' = [thr EXCEPT ![t] = Ended(@, "error")]
    /\ UNCHANGED <<clientVars, disc_inbox, tcpVars, udpVars, bcastVars>>

\* start_time = time.time()
UdpMark(t) ==
    /\ thr[t].kind = "udp" /\ thr[t].pc = "mark"
    /\ thr' = [thr EXCEPT ![t].pc = "loop", ![t].elapsed = 0]
    /\ UNCHANGED <<clientVars, disc_inbox, tcpVars, udpVars, bcastVars, faults>>

\* while time.time() - start_time < 1
InWindow(elapsed) == elapsed < TicksPerSec

\* if len(data) >= 20
Counted(d) == d.len >= CLIENT_PAYLOAD_MIN_LEN

\* a count that skips a datagram equal to the one received just before
CountDistinct(th, d) ==
    IF Counted(d) /\ d.bytes # th.data.bytes
    THEN [th EXCEPT !.received_segments = @ + 1,
                    !.total_received = @ + (d.len - CLIENT_PAYLOAD_MIN_LEN)]
    ELSE th

\* received_segments += 1; total_received += len(data) - 20
Count(th, d) ==
    IF Counted(d)
    THEN [th EXCEPT !.received_segments = @ + 1,
                    !.total_received = @ + (d.len - CLIENT_PAYLOAD_MIN_LEN)]
    ELSE th

\* success_rate = (received_segments / total_segments) * 100 if total_segments > 0 else 0
SuccessRate(received_segments, total_segments) ==
    IF total_segments > 0 THEN [num |-> received_segments * 100, den |-> total_segments]
    ELSE ZeroRate

\* lines 103-106: the socket is closed, end_time, the statistics, the report
Report(th) ==
    [Ended(th, "finished") EXCEPT
        !.success_rate = SuccessRate(th.received_segments, th.total_segments)]

\* a timeout that nothing catches inside the loop
TimeoutUncaught(th) == Ended(th, "error")

\* except socket.timeout: break; then the lines after the loop
OnTimeout(th) == Report(th)

\* the loop condition: into the next receive (settimeout(1), recvfrom), or out
UdpLoop(t) ==
    /\ thr[t].kind = "udp" /\ thr[t].pc = "loop"
    /\ IF InWindow(thr[t].elapsed)
       THEN /\ thr' = [thr EXCEPT ![t].pc = "recv", ![t].wait = 0]
            /\ UNCHANGED inbox
       ELSE /\ thr' = [thr EXCEPT ![t] = Report(@)]
            /\ inbox' = [inbox EXCEPT ![t] = EmptyBag]
    /\ UNCHANGED <<clientVars, disc_inbox, tcpVars, srv_inbox, uh, bcastVars, faults>>

\* data, _ = udp_socket.recvfrom(BUFFER_SIZE) returns a datagram
UdpRecv(t) ==
    /\ thr[t].kind = "udp" /\ thr[t].pc = "recv"
    /\ \E d \in BagToSet(inbox[t]) :
         /\ thr' = [thr EXCEPT ![t] = [Count(@, d) EXCEPT !.pc = "loop", !.data = d, !.wait = 0]]
         /\ inbox' = [inbox EXCEPT ![t] = BagRemove(@, d)]
    /\ UNCHANGED <<clientVars, disc_inbox, tcpVars, srv_inbox, uh, bcastVars, faults>>

\* recvfrom raises socket.timeout: break
UdpTimeout(t) ==
    /\ thr[t].kind = "udp" /\ thr[t].pc = "recv"
    /\ inbox[t] = EmptyBag
    /\ thr[t].wait >= TicksPerSec
    /\ thr' = [thr EXCEPT ![t] = OnTimeout(@)]
    /\ UNCHANGED <<clientVars, disc_inbox, tcpVars, udpVars, bcastVars, faults>>

\* other traffic reaching the socket of udp_transfer
ForeignPayloads ==
    {Datagram(OtherAddr, Pack_IBQQ(BAD_COOKIE, PAYLOAD_MESSAGE_TYPE, 1, 0), BUFFER_SIZE),
     Datagram(OtherAddr, Pack_IBQQ(MAGIC_COOKIE, OFFER_MESSAGE_TYPE, 1, 0), BUFFER_SIZE),
     Datagram(OtherAddr, SubSeq(PayloadHeader(1, 0), 1, 19), 19)}

ForeignToWorker(t) ==
    /\ SocketOpen(t)
    /\ faults.foreign > 0
    /\ \E d \in ForeignPayloads : inbox' = [inbox EXCEPT ![t] = Arrive(@, ArrivedAt(d, thr[t].elapsed))]
    /\ faults' = [faults EXCEPT !.foreign = @ - 1]
    /\ UNCHANGED <<clientVars, thr, disc_inbox, tcpVars, srv_inbox, uh, bcastVars>>

\* ------------------------------------------- Server.start_udp_server
\* what else may arrive on the server's UDP port: a request of another client,
\* and datagrams with a wrong magic, a wrong type, or one byte too short
ForeignRequests ==
    {Datagram(OtherAddr, RequestMessage(SizeStep), 13),
     Datagram(OtherAddr, Pack_IBQ(BAD_COOKIE, REQUEST_MESSAGE_TYPE, SizeStep), 13),
     Datagram(OtherAddr, Pack_IBQ(MAGIC_COOKIE, PAYLOAD_MESSAGE_TYPE, SizeStep), 13),
     Datagram(OtherAddr, SubSeq(RequestMessage(SizeStep), 1, 12), 12)}

ForeignToServer ==
    /\ faults.foreign > 0
    /\ \E d \in ForeignRequests : srv_inbox' = Arrive(srv_inbox, d)
    /\ faults' = [faults EXCEPT !.foreign = @ - 1]
    /\ UNCHANGED <<clientVars, thr, disc_inbox, tcpVars, inbox, uh, bcastVars>>

\* the check of the request with the type left out
IsRequestAnyType(d) ==
    /\ d.len >= REQUEST_MIN_LEN
    /\ Unpack_IBQ(SubSeq(d.bytes, 1, 13)).cookie = MAGIC_COOKIE

IsRequest(d) ==
    /\ d.len >= REQUEST_MIN_LEN
    /\ LET u == Unpack_IBQ(SubSeq(d.bytes, 1, 13))
       IN  u.cookie = MAGIC_COOKIE /\ u.message_type = REQUEST_MESSAGE_TYPE

\* threading.Thread(target=handle_udp_client, args=(client_address, file_size))
UdpHandler(client_address, size) ==
    [pc |-> "init", client_address |-> client_address, file_size |-> size, total_segments |-> 0,
     segment_num |-> 0, bytes_sent |-> 0, elapsed |-> 0, error |-> "none", sent |-> <<>>]

\* one turn of the loop: recvfrom, the checks, the handler thread
UdpServe ==
    /\ \E d \in BagToSet(srv_inbox) :
         /\ srv_inbox' = BagRemove(srv_inbox, d)
         /\ uh' = IF IsRequest(d)
                  THEN Append(uh, UdpHandler(d.src, Unpack_IBQ(SubSeq(d.bytes, 1, 13)).file_size))
                  ELSE uh
    /\ UNCHANGED <<clientVars, thr, disc_inbox, tcpVars, inbox, bcastVars, faults>>

\* ------------------------------------------- Server.handle_udp_client
\* lines 78-82: total_segments, bytes_sent, start_time, the socket
UhBegin(h) ==
    /\ uh[h].pc = "init"
    /\ uh' = [uh EXCEPT ![h].pc = "send", ![h].total_segments = TotalSegments(uh[h].file_size),
                        ![h].bytes_sent = 0, ![h].segment_num = 0, ![h].elapsed = 0]
    /\ UNCHANGED <<clientVars, thr, disc_inbox, tcpVars, inbox, srv_inbox, bcastVars, faults>>

\* the range taken one too far
UhLoopCondInclusive(segment_num, total_segments) == segment_num <= total_segments

\* for segment_num in range(total_segments)
UhLoopCond(segment_num, total_segments) == segment_num < total_segments

\* the next value of segment_num
UhStep(segment_num) == segment_num + 1

\* one turn of the loop: pack, pad, sendto, bytes_sent += len(payload)
UhSend(h) ==
    /\ uh[h].pc = "send"
    /\ UhLoopCond(uh[h].segment_num, uh[h].total_segments)
    /\ LET payload == PayloadDatagram(uh[h].total_segments, uh[h].segment_num)
           t == uh[h].client_address[2]
       IN  /\ uh' = [uh EXCEPT ![h].segment_num = UhStep(@), ![h].bytes_sent = @ + payload.len,
                               ![h].sent = Append(@, payload)]
           /\ \E k \in Copies :
                /\ DupCost(k) <= faults.dup
                /\ faults' = [faults EXCEPT !.dup = @ - DupCost(k)]
                /\ inbox' = IF uh[h].client_address[1] = "client" /\ SocketOpen(t)
                            THEN [inbox EXCEPT ![t] = Deliver(@, ArrivedAt(payload, thr[t].elapsed), k)]
                            ELSE inbox
    /\ UNCHANGED <<clientVars, thr, disc_inbox, tcpVars, srv_inbox, bcastVars>>

\* sendto raises: the except block ends the handler
UhSendFails(h) ==
    /\ uh[h].pc = "send"
    /\ UhLoopCond(uh[h].segment_num, uh[h].total_segments)
    /\ faults.senderr > 0
    /\ faults' = [faults EXCEPT !.senderr = @ - 1]
    /\ uh' = [uh EXCEPT ![h].pc = "done", ![h].error = "transport", ![h].elapsed = 0]
    /\ UNCHANGED <<clientVars, thr, disc_inbox, tcpVars, inbox, srv_inbox, bcastVars>>

\* the loop is left; end_time; speed = bytes_sent / (end_time - start_time) * 8
\* raises ZeroDivisionError when the clock has not moved
UhFinish(h) ==
    /\ uh[h].pc = "send"
    /\ ~UhLoopCond(uh[h].segment_num, uh[h].total_segments)
    /\ uh' = [uh EXCEPT ![h].pc = "done", ![h].elapsed = 0,
                        ![h].error = IF uh[h].elapsed > 0 THEN "none" ELSE "zerodiv"]
    /\ UNCHANGED <<clientVars, thr, disc_inbox, tcpVars, inbox, srv_inbox, bcastVars, faults>>

\* ------------------------------------------------------ specifications
AllFaults == [foreign |-> MaxForeign, dup |-> MaxDup, reset |-> MaxReset, senderr |-> MaxSendErr,
              own |-> 1]
NoFaults == [foreign |-> 0, dup |-> 0, reset |-> 0, senderr |-> 0, own |-> 0]

\* the server's offers and the client's main thread
Discovery ==
    \/ Tick
    \/ BroadcastSend
    \/ BroadcastWake
    \/ ListenRecv
    \/ LaunchTcp
    \/ LaunchUdp
    \/ Join

\* the reliable path: tcp_transfer, start_tcp_server, handle_tcp_client
Reliable ==
    \/ \E t \in TIDs : TcpBegin(t)
    \/ \E t \in TIDs : TcpConnect(t)
    \/ \E t \in TIDs : TcpRequest(t)
    \/ \E t \in TIDs : TcpRecv(t)
    \/ \E t \in TIDs : TcpFinish(t)
    \/ \E c \in TIDs : TcpAccept(c)
    \/ \E c \in TIDs : HRecvRequest(c)
    \/ \E c \in TIDs : HSend(c)
    \/ \E c \in TIDs : HFinish(c)

\* the unreliable path: udp_transfer, start_udp_server, handle_udp_client
Unreliable ==
    \/ \E t \in TIDs : UdpRequest(t)
    \/ \E t \in TIDs : UdpMark(t)
    \/ \E t \in TIDs : UdpLoop(t)
    \/ \E t \in TIDs : UdpRecv(t)
    \/ \E t \in TIDs : UdpTimeout(t)
    \/ UdpServe
    \/ \E h \in DOMAIN uh : UhBegin(h)
    \/ \E h \in DOMAIN uh : UhSend(h)
    \/ \E h \in DOMAIN uh : UhFinish(h)

\* the program on a network that loses, duplicates and splits but sends nothing
\* of its own: some transfers of one and of two size steps
OrchSizes == {k * SizeStep : k \in 1..Min(2, MaxSizeSteps)}
Init == InitWith(OrchSizes, ConnCounts, ConnCounts, NoFaults)
Next ==
    \/ Discovery
    \/ Reliable
    \/ Unreliable
Spec == Init /\ [][Next]_vars

\* discovery alone, with foreign traffic on the discovery port
InitDiscovery == InitWith(FileSizes, ConnCounts, ConnCounts, [NoFaults EXCEPT !.foreign = MaxForeign])
NextDiscovery == Discovery \/ ForeignToDiscovery
SpecDiscovery == InitDiscovery /\ [][NextDiscovery]_vars

\* discovery with sends of the broadcaster that fail; the clock runs and the
\* broadcaster is scheduled again and again
InitBroadcast == InitWith(FileSizes, ConnCounts, ConnCounts, [NoFaults EXCEPT !.senderr = MaxSendErr])
NextBroadcast == Discovery \/ BroadcastSendFails
SpecBroadcast == InitBroadcast /\ [][NextBroadcast]_vars
FairBroadcast ==
    /\ WF_vars(Tick)
    /\ WF_vars(BroadcastSend)
    /\ WF_vars(BroadcastWake)
FairSpecBroadcast == SpecBroadcast /\ FairBroadcast

\* one reliable transfer
InitTcp == InitWith(FileSizes, {1}, {0}, [NoFaults EXCEPT !.reset = MaxReset])
NextTcp == Discovery \/ Reliable \/ \E c \in TIDs : NetReset(c)
SpecTcp == InitTcp /\ [][NextTcp]_vars

\* one reliable transfer and a connection from another program
InitTcpServer ==
    InitWith(FileSizes, {1}, {0}, [NoFaults EXCEPT !.reset = MaxReset, !.foreign = MaxForeign])
NextTcpServer ==
    \/ Discovery
    \/ Reliable
    \/ \E c \in TIDs : NetReset(c)
    \/ \E c \in TIDs : ForeignConnect(c)
SpecTcpServer == InitTcpServer /\ [][NextTcpServer]_vars

\* every thread that can run is scheduled again and again; the network's
\* faults are under no obligation to happen
ClientMain == ListenRecv \/ LaunchTcp \/ LaunchUdp \/ Join
TcpWorker(t) == TcpBegin(t) \/ TcpConnect(t) \/ TcpRequest(t) \/ TcpRecv(t) \/ TcpFinish(t)
TcpHandler(c) == HRecvRequest(c) \/ HSend(c) \/ HFinish(c)
FairTcp ==
    /\ WF_vars(Tick)
    /\ WF_vars(BroadcastSend)
    /\ WF_vars(BroadcastWake)
    /\ WF_vars(ClientMain)
    /\ WF_vars(\E c \in TIDs : TcpAccept(c))
    /\ \A t \in TIDs : WF_vars(TcpWorker(t))
    /\ \A c \in TIDs : WF_vars(TcpHandler(c))
FairSpecTcp == SpecTcp /\ FairTcp

UdpWorker(t) == UdpRequest(t) \/ UdpMark(t) \/ UdpLoop(t) \/ UdpRecv(t) \/ UdpTimeout(t)

\* one unreliable transfer, with duplicates and failing sends
InitUdp == InitWith(FileSizes, {0}, {1}, [NoFaults EXCEPT !.dup = MaxDup, !.senderr = MaxSendErr])
NextUdp ==
    \/ Discovery
    \/ Unreliable
    \/ \E h \in DOMAIN uh : UhSendFails(h)
    \/ \E t \in TIDs : UdpRequestFails(t)
SpecUdp == InitUdp /\ [][NextUdp]_vars

\* the clock runs and every udp_transfer thread is scheduled again and again;
\* the server and the network are under no obligation at all
FairUdp ==
    /\ WF_vars(Tick)
    /\ \A t \in TIDs : WF_vars(UdpWorker(t))
FairSpecUdp == SpecUdp /\ FairUdp

\* one unreliable transfer, with foreign traffic on the worker's socket
InitUdpForeign == InitWith(FileSizes, {0}, {1}, [NoFaults EXCEPT !.foreign = MaxForeign])
NextUdpForeign ==
    \/ Discovery
    \/ Unreliable
    \/ \E t \in TIDs : ForeignToWorker(t)
SpecUdpForeign == InitUdpForeign /\ [][NextUdpForeign]_vars

\* the server with one client, a second connection from another program and
\* duplicated requests: a reliable client of the largest size, which fills the
\* socket buffer, or an unreliable client of two size steps; only the two
\* server loops are sure to be scheduled, every client and every handler may
\* stall for ever
InitServer ==
    /\ InitWith({2 * SizeStep, MaxSizeSteps * SizeStep}, {0, 1}, {0, 1},
                [NoFaults EXCEPT !.foreign = MaxForeign, !.dup = MaxDup])
    /\ tcp_connections + udp_connections = 1
    /\ file_size = IF tcp_connections = 1 THEN MaxSizeSteps * SizeStep ELSE 2 * SizeStep
NextServer ==
    \/ Discovery
    \/ Reliable
    \/ Unreliable
    \/ \E c \in TIDs : ForeignConnect(c)
SpecServer == InitServer /\ [][NextServer]_vars
FairAccept ==
    /\ WF_vars(\E c \in TIDs : TcpAccept(c))
    /\ WF_vars(UdpServe)
FairSpecServer == SpecServer /\ FairAccept

\* one unreliable transfer, with foreign traffic and the server's own offers
\* on the server's UDP port
InitUdpServer ==
    InitWith(FileSizes, {0}, {1}, [NoFaults EXCEPT !.foreign = MaxForeign, !.own = 1])
NextUdpServer ==
    \/ Discovery
    \/ Unreliable
    \/ ForeignToServer
SpecUdpServer == InitUdpServer /\ [][NextUdpServer]_vars

\* ------------------------------------------------------------- claims
\* C1: after a transfer cycle in which all launched workers have finished, the
\* client returns to the discovery phase: whenever start_client leaves its
\* join loop, it is listening for offers again.
C1_ReturnsToDiscovery == [][(cpc = "join" /\ cpc' # "join") => cpc' = "listen"]_vars

\* a datagram that is an offer on the wire: at least 9 bytes, the magic, type 0x2
WellFormedOffer(m) ==
    /\ m.len >= 9
    /\ Len(m.bytes) >= 5
    /\ SubSeq(m.bytes, 1, 4) = <<171, 205, 220, 186>>
    /\ m.bytes[5] = 2

\* C7: listen_for_offers returns exactly on a datagram of at least 9 bytes with
\* the magic 0xABCDDCBA and the type OFFER; on any other datagram it keeps
\* listening.
C7_ListenerReturnsOnlyOnOffer ==
    [][cpc = "listen" => ((cpc' # "listen") <=> WellFormedOffer(message'))]_vars

\* a datagram of the right length and type with a wrong magic was received, and
\* the listener is still listening
C7_Witness ==
    /\ cpc = "listen"
    /\ message.len = 9
    /\ SubSeq(message.bytes, 1, 4) # <<171, 205, 220, 186>>
    /\ message.bytes[5] = 2

AllPorts == PortSamples \cup {UDP_PORT, TCP_PORT}

\* C8: when an offer encoding (udp_port, tcp_port) is the one the listener
\* returns on, start_client holds exactly these two ports, and hands tcp_port
\* to every tcp_transfer thread and udp_port to every udp_transfer thread.
C8_OfferRoundTrip ==
    cpc # "listen" =>
        \A u \in AllPorts, t \in AllPorts :
            message.bytes = OfferMessage(u, t) =>
                /\ offer.udp_port = u
                /\ offer.tcp_port = t
                /\ \A i \in TIDs :
                     /\ thr[i].kind = "tcp" => thr[i].port = t
                     /\ thr[i].kind = "udp" => thr[i].port = u

\* an offer with two different ports was taken and both kinds of thread started
C8_Witness ==
    /\ cpc = "join"
    /\ message.bytes = OfferMessage(258, 513)
    /\ \E i \in TIDs : thr[i].kind = "tcp" /\ thr[i].port = 513
    /\ \E i \in TIDs : thr[i].kind = "udp" /\ thr[i].port = 258

\* C2: every tcp_transfer thread that was started eventually terminates, and
\* the wait of start_client for its threads eventually returns.
C2_TcpWorkerTerminates ==
    /\ \A t \in TIDs : (thr[t].kind = "tcp") ~> Terminated(t)
    /\ (cpc = "join") ~> (cpc = "exit")

\* C3: a handler that parsed its request and met no transport error has handed
\* at least file_size bytes to the connection when it closes it.
C3_HandlerHandsRequestedBytes ==
    \A c \in TIDs :
        (hdl[c].pc = "closed" /\ hdl[c].error \notin {"transport", "value"})
            => hdl[c].handed >= hdl[c].file_size

\* C4: a tcp_transfer thread that reports its transfer finished has received at
\* least the requested number of bytes.
C4_FinishedMeansReceived ==
    \A t \in TIDs :
        (thr[t].kind = "tcp" /\ thr[t].pc = "finished") => thr[t].received >= thr[t].file_size

\* a transfer of more than one buffer finished after a partial read
C4_Witness ==
    \E t \in TIDs :
        /\ thr[t].kind = "tcp" /\ thr[t].pc = "finished"
        /\ thr[t].file_size > 1024
        /\ thr[t].received % 1024 # 0

\* a success rate between 0 and 100 percent
RateInRange(r) == r.den > 0 /\ 0 <= r.num /\ r.num <= 100 * r.den

\* C5: the success rate a finished udp_transfer reports is in [0, 100], and is
\* 0 when the expected number of segments is 0, whatever the network lost,
\* reordered or duplicated.
C5_SuccessRateInRange ==
    \A t \in TIDs :
        (thr[t].kind = "udp" /\ thr[t].pc = "finished") =>
            /\ RateInRange(thr[t].success_rate)
            /\ (thr[t].file_size \div 1024 = 0 => thr[t].success_rate.num = 0)

\* a datagram that is a payload on the wire: the magic, type 0x4
WellFormedPayload(d) ==
    /\ Len(d.bytes) >= 5
    /\ SubSeq(d.bytes, 1, 4) = <<171, 205, 220, 186>>
    /\ d.bytes[5] = 4

\* C6: a datagram received by udp_transfer whose magic or type is not that of a
\* payload changes neither received_segments nor total_received.
C6_RejectsForeignDatagrams ==
    [][\A t \in TIDs :
         (thr[t].kind = "udp" /\ thr[t].pc = "recv" /\ thr'[t].pc = "loop"
          /\ ~WellFormedPayload(thr'[t].data))
         => /\ thr'[t].received_segments = thr[t].received_segments
            /\ thr'[t].total_received = thr[t].total_received]_vars

\* the header fields of the i-th datagram a handler sent
SentTotal(h, i) == UnpackQ(SubSeq(uh[h].sent[i].bytes, 6, 13))
SentIndex(h, i) == UnpackQ(SubSeq(uh[h].sent[i].bytes, 14, 21))

\* C9: handle_udp_client sends the payloads 0, 1, ... in this order, each of
\* 1024 bytes and carrying total = floor(file_size / 1024); when it ends with
\* no send having failed it has sent exactly total of them.
C9_SendsExactlyTotalSegments ==
    \A h \in DOMAIN uh :
        LET total == uh[h].file_size \div 1024
        IN  /\ Len(uh[h].sent) <= total
            /\ \A i \in 1..Len(uh[h].sent) :
                 /\ WellFormedPayload(uh[h].sent[i])
                 /\ uh[h].sent[i].len = 1024
                 /\ SentTotal(h, i) = total
                 /\ SentIndex(h, i) = i - 1
            /\ (uh[h].pc = "done" /\ uh[h].error # "transport") => Len(uh[h].sent) = total

\* a handler has sent its two segments and ended, none of them having arrived
C9_Witness ==
    \E h \in DOMAIN uh :
        /\ uh[h].pc = "done" /\ uh[h].error # "transport"
        /\ Len(uh[h].sent) = 2
        /\ \A t \in TIDs : thr[t].received_segments = 0

\* what a worker waits for, read from its own thread and its own socket alone
WaitsForOwnSocket(t) ==
    \/ /\ thr[t].kind = "tcp" /\ thr[t].pc = "recv"
       /\ thr[t].received < thr[t].file_size
       /\ ~conn[t].reset /\ conn[t].s2c = 0 /\ conn[t].srv_open
    \/ /\ thr[t].kind = "udp" /\ thr[t].pc = "recv"
       /\ inbox[t] = EmptyBag /\ thr[t].wait < TicksPerSec
Started(t) == thr[t].kind # "none"
HasEnded(t) == thr[t].pc \in {"finished", "error"}

\* C10: start_client starts exactly tcp_connections + udp_connections workers,
\* passes its join loop only when every one of them has ended, and a worker
\* that has not ended can take its next step unless it waits for its own socket
\* (whatever the other workers do).
C10_JoinBarrier ==
    /\ Cardinality({t \in TIDs : Started(t)}) = Len(threads)
    /\ cpc \in {"join", "exit"} =>
          /\ Len(threads) = tcp_connections + udp_connections
          /\ Cardinality({t \in TIDs : thr[t].kind = "tcp"}) = tcp_connections
          /\ Cardinality({t \in TIDs : thr[t].kind = "udp"}) = udp_connections
    /\ cpc = "exit" => \A t \in TIDs : Started(t) => HasEnded(t)
    /\ \A t \in TIDs :
          (Started(t) /\ ~HasEnded(t)) =>
              ((ENABLED (TcpWorker(t) \/ UdpWorker(t))) <=> ~WaitsForOwnSocket(t))

\* the first worker is stuck reading a connection the server has closed, and
\* the second has finished all the same
C10_Witness ==
    /\ cpc = "join" /\ Len(threads) = 2
    /\ thr[1].kind = "tcp" /\ thr[1].pc = "recv" /\ thr[1].received < thr[1].file_size
    /\ conn[1].s2c = 0 /\ ~conn[1].srv_open
    /\ thr[2].kind = "udp" /\ thr[2].pc = "finished"

\* the requests waiting in the socket of start_udp_server
PendingRequests ==
    BagCardinality([d \in {x \in BagToSet(srv_inbox) : x.len >= 13} |-> CopiesIn(d, srv_inbox)])

\* C11: whatever the handlers already started are doing (waiting for a request
\* that never comes, blocked in send() on a client that does not read, still
\* sending datagrams), a connection waiting in the backlog is accepted and gets
\* its handler, and every request waiting in the unreliable socket gets its
\* handler.
C11_AcceptanceNeverBlocked ==
    /\ \A c \in TIDs : (conn[c].state = "backlog") ~> (hdl[c].pc # "none")
    /\ \A n \in 1..3 : (Len(uh) + PendingRequests >= n) ~> (Len(uh) >= n)

\* the first handler is blocked in send() on a full buffer, its client having
\* read nothing, and the second connection has its handler, which waits for a
\* request that never comes
C11_Witness ==
    /\ hdl[1].pc = "send" /\ hdl[1].bytes_sent < hdl[1].file_size
    /\ conn[1].s2c = 2048 /\ thr[1].received = 0
    /\ hdl[2].pc = "recv" /\ conn[2].c2s = <<>> /\ conn[2].cli_open

\* the request of udp_transfer thread t has been sent
RequestSent(t) == thr[t].kind = "udp" /\ thr[t].pc \notin {"none", "init", "error"}

\* C12: once its request is sent, a udp_transfer thread never takes the error
\* path and eventually ends with its statistics report, whatever the network
\* loses, reorders or duplicates.
C12_UdpWorkerAlwaysReports ==
    /\ [][\A t \in TIDs : RequestSent(t) => thr'[t].pc # "error"]_vars
    /\ \A t \in TIDs : RequestSent(t) ~> (thr[t].pc = "finished")

\* a worker has reported after one of its two segments was lost
C12_Witness ==
    \E t \in TIDs :
        /\ thr[t].kind = "udp" /\ thr[t].pc = "finished"
        /\ thr[t].total_segments = 2 /\ thr[t].received_segments = 1
        /\ \E h \in DOMAIN uh : uh[h].pc = "done" /\ Len(uh[h].sent) = 2

\* C13: the size a handler serves is the number its client wrote before the
\* line terminator, however the transport splits the request line into reads.
C13_ServesRequestedSize ==
    \A c \in TIDs :
        (thr[c].kind = "tcp" /\ hdl[c].pc \in {"send", "closed"}
         /\ hdl[c].error \notin {"transport", "value"})
            => hdl[c].file_size = thr[c].file_size

\* C14: udp_transfer counts a datagram exactly when its length is at least the
\* 21 bytes of the payload header, and a counted datagram adds its length less
\* 21 to total_received (1003 for a full segment).
C14_CountsBytesPastHeader ==
    [][\A t \in TIDs :
         (thr[t].kind = "udp" /\ thr[t].pc = "recv" /\ thr'[t].pc = "loop") =>
            IF thr'[t].data.len >= 21
            THEN /\ thr'[t].received_segments = thr[t].received_segments + 1
                 /\ thr'[t].total_received = thr[t].total_received + (thr'[t].data.len - 21)
            ELSE /\ thr'[t].received_segments = thr[t].received_segments
                 /\ thr'[t].total_received = thr[t].total_received]_vars

\* C15: received_segments counts arrivals: it is 0 before the receive loop, each
\* datagram received with the length the loop asks for adds exactly 1, whatever
\* its segment index and whether or not it was received before, and nothing
\* else changes it.
C15_CountsArrivals ==
    /\ [](\A t \in TIDs : thr[t].pc \in {"none", "init", "mark"} => thr[t].received_segments = 0)
    /\ [][\A t \in TIDs :
            thr[t].kind = "udp" =>
               thr'[t].received_segments = thr[t].received_segments +
                  (IF thr[t].pc = "recv" /\ thr'[t].pc = "loop" /\ thr'[t].data.len >= 20
                   THEN 1 ELSE 0)]_vars

\* the one segment of a transfer was delivered twice and counted twice
C15_Witness ==
    \E t \in TIDs :
        /\ thr[t].kind = "udp" /\ thr[t].pc = "loop"
        /\ thr[t].total_segments = 1 /\ thr[t].received_segments = 2

\* C16: no datagram that reaches the worker's socket more than 1 time unit
\* after start_time is counted in received_segments or in total_received.
C16_NothingCountedAfterWindow ==
    [][\A t \in TIDs :
         (thr[t].kind = "udp" /\ thr[t].pc = "recv" /\ thr'[t].pc = "loop"
          /\ thr'[t].data.at > TicksPerSec)
         => /\ thr'[t].received_segments = thr[t].received_segments
            /\ thr'[t].total_received = thr[t].total_received]_vars

\* C17: send_offers never stops: it is about to send an offer again and again,
\* and asleep after a send again and again, also after a send that failed.
C17_BroadcasterNeverStops ==
    /\ []<>(b_pc = "send")
    /\ []<>(b_pc = "sleep")

\* a datagram that is a request on the wire: at least 13 bytes, the magic, type 0x3
WellFormedRequest(d) ==
    /\ d.len >= 13
    /\ Len(d.bytes) >= 13
    /\ SubSeq(d.bytes, 1, 4) = <<171, 205, 220, 186>>
    /\ d.bytes[5] = 3

\* C18: each datagram start_udp_server receives either is a well-formed
\* request and starts exactly one handler, with the sender's address and the
\* size of the datagram, or starts none; in both cases nothing is sent to any
\* client socket, and the loop can always take the next datagram.
C18_OneHandlerPerRequest ==
    /\ [](srv_inbox # EmptyBag => ENABLED UdpServe)
    /\ [][\A d \in BagToSet(srv_inbox) :
            srv_inbox' = srv_inbox (-) SetToBag({d}) =>
               /\ inbox' = inbox /\ disc_inbox' = disc_inbox
               /\ IF WellFormedRequest(d)
                  THEN /\ Len(uh') = Len(uh) + 1
                       /\ SubSeq(uh', 1, Len(uh)) = uh
                       /\ uh'[Len(uh')].pc = "init"
                       /\ uh'[Len(uh')].client_address = d.src
                       /\ uh'[Len(uh')].file_size = UnpackQ(SubSeq(d.bytes, 6, 13))
                  ELSE uh' = uh]_vars

\* the request of another client has its handler, with that client's address
\* and size, next to the handler of the worker's request, and one of the
\* server's own offers waits in the server's socket
C18_Witness ==
    /\ Len(uh) = 2
    /\ \E h \in DOMAIN uh : uh[h].client_address = <<"other", 0>> /\ uh[h].file_size = SizeStep
    /\ \E h \in DOMAIN uh : uh[h].client_address[1] = "client" /\ uh[h].file_size = file_size
    /\ \E d \in BagToSet(srv_inbox) : d.len = 9

\* C19: a handler that has ended, on whichever path (transfer completed,
\* request not a number, transport error), has attempted the shutdown and has
\* closed its connection; after a request that is no number it has handed no
\* payload byte to the connection; and the accept loop still takes every
\* connection that waits.
C19_HandlerAlwaysCloses ==
    /\ \A c \in TIDs :
          hdl[c].pc = "closed" =>
             /\ ~conn[c].srv_open
             /\ hdl[c].shutdown \in {"done", "failed"}
             /\ hdl[c].error = "value" => (hdl[c].handed = 0 /\ conn[c].s2c = 0)
    /\ \A c \in TIDs : hdl[c].pc \in {"none", "recv", "send", "closed"}
    /\ \A c \in TIDs : conn[c].state = "backlog" => ENABLED TcpAccept(c)

\* the handler of a line that is no number has closed its connection, and the
\* connection of tcp_transfer, made after that, waits to be accepted
C19_Witness ==
    /\ hdl[2].pc = "closed" /\ hdl[2].error = "value" /\ conn[2].c2s = <<"x", "\n">>
    /\ ~conn[2].srv_open /\ hdl[2].handed = 0
    /\ thr[1].kind = "tcp" /\ conn[1].state = "backlog"

\* C20: a tcp_transfer thread that leaves its receive loop with all its bytes
\* ends with the finished report, also when its clock has not moved since
\* start_time.
C20_ZeroElapsedStillFinishes ==
    [][\A t \in TIDs :
         (thr[t].kind = "tcp" /\ thr[t].pc = "recv" /\ thr[t].received >= thr[t].file_size
          /\ thr'[t].pc # "recv")
         => thr'[t].pc = "finished"]_vars

=============================================================================
